---- MODULE Spec2Model ----
(***************************************************************************)
(* State plumbing of the chess GUI in src/src/main.rs: the FEN decoder     *)
(* (Game::parse_fen, Game::update_fen), the square labeller                *)
(* (get_algebraic_notation) and the two-click move selection               *)
(* (AppState::mouse_button_up_event) around the external resolver          *)
(* chess::game_turn.                                                       *)
(*                                                                         *)
(* A Rust String is modelled as the sequence of its characters, each a     *)
(* one-character string, so that splitting, digit expansion and number     *)
(* formatting are computed rather than assumed.  The alphabet is ASCII     *)
(* plus two numeric characters that are no ASCII digits, on which          *)
(* char::is_numeric holds and to_digit(10) is None.                        *)
(*                                                                         *)
(* ggez's event::run handles the events that are queued and then calls     *)
(* update (empty) and draw once per iteration: draw runs between two       *)
(* pointer releases unless both were queued in the same iteration, so it   *)
(* is an action of its own that may come between any two handler runs.     *)
(***************************************************************************)
EXTENDS Integers, Sequences, FiniteSets, TLC

VARIABLES
    game,             \* AppState.game: [fen, turn, board]
    piece_picked_up,  \* AppState.piece_picked_up: <<>> or <<x, y>>
    pc,               \* where the program is: "idle", "resolving", "panicked", ...
    action,           \* the move request handed to game_turn by the running handler
    reply,            \* the text game_turn returned to the step just taken
    click,            \* <<button, pos.x, pos.y>> of the last pointer release handled
    labelled,         \* the cells get_algebraic_notation was applied to by that handler
    last,             \* name of the step just taken
    arg,              \* input of the function under test (SpecCodec, SpecLabel)
    result            \* its returned value

vars == <<game, piece_picked_up, pc, action, reply, click, labelled, last, arg, result>>

----------------------------------------------------------------------------
(* Program constants *)

GRID_SIZE == 8
GRID_CELL_SIZE == <<90, 90>>
\* SCREEN_SIZE in cells: (6 + GRID_SIZE) columns, GRID_SIZE rows
SCREEN_COLS == 6 + GRID_SIZE
SCREEN_ROWS == GRID_SIZE
RADIX == 10

(* Bounds of the model *)

\* how many cells beyond the window edge a pointer release is sampled at
\* (the pointer can leave the window while the button is held)
Margin == 1
\* pixel offset inside a cell at which the pointer is sampled
PixelOffset == 45

----------------------------------------------------------------------------
(* Texts *)

InitialFen == <<"r", "n", "b", "q", "k", "b", "n", "r", "/", "p", "p", "p", "p", "p", "p", "p", "p", "/", "8", "/", "8", "/", "8", "/", "8", "/", "P", "P", "P", "P", "P", "P", "P", "P", "/", "R", "N", "B", "Q", "K", "B", "N", "R", " ", "w", " ", "K", "Q", "k", "q", " ", "-", " ", "0", " ", "1">>

DigitChars == <<"0", "1", "2", "3", "4", "5", "6", "7", "8", "9">>

\* numeric characters (Unicode Nd, Nl, No) outside ASCII
OtherNumericChars == {"²", "½"}

\* char::is_numeric: the Unicode predicate
is_numeric(character) ==
    \/ \E i \in 1..Len(DigitChars) : DigitChars[i] = character
    \/ character \in OtherNumericChars

\* char::to_digit(RADIX): Some(d) on an ASCII digit, None on anything else
to_digit(character) ==
    IF \E i \in 1..RADIX : DigitChars[i] = character
    THEN [some |-> TRUE,
          digit |-> (CHOOSE i \in 1..RADIX : DigitChars[i] = character) - 1]
    ELSE [some |-> FALSE, digit |-> 0]

\* str::split(sep): the pieces between the occurrences of sep, in order; one
\* piece more than there are separators, empty pieces included
split(s, sep) ==
    LET at == {i \in 1..Len(s) : s[i] = sep}
        edge(k) == IF k = 0 THEN 0
                   ELSE IF k = Cardinality(at) + 1 THEN Len(s) + 1
                   ELSE CHOOSE i \in at : Cardinality({j \in at : j < i}) = k - 1
    IN  [k \in 1..(Cardinality(at) + 1) |-> SubSeq(s, edge(k - 1) + 1, edge(k) - 1)]

\* format!("{}", n) of an i32
RECURSIVE NatToStr(_)
NatToStr(n) ==
    IF n < 10 THEN <<DigitChars[n + 1]>>
    ELSE NatToStr(n \div 10) \o <<DigitChars[(n % 10) + 1]>>

IntToStr(n) == IF n < 0 THEN <<"-">> \o NatToStr(0 - n) ELSE NatToStr(n)

----------------------------------------------------------------------------
(* get_algebraic_notation *)

col_names == <<"a", "b", "c", "d", "e", "f", "g", "h">>

\* a slip: the rank counted from 7
get_algebraic_notation_off_by_one(x_pos, y_pos) ==
    IF x_pos >= 0 /\ x_pos < Len(col_names)
    THEN [panic |-> FALSE, value |-> <<col_names[x_pos + 1]>> \o IntToStr(7 - y_pos)]
    ELSE [panic |-> TRUE, value |-> <<>>]

\* A panicking call returns [panic |-> TRUE]; x_pos as usize of a negative
\* x_pos is at least 2^63, so chars().nth() is None exactly outside 0..7.
get_algebraic_notation(x_pos, y_pos) ==
    IF x_pos >= 0 /\ x_pos < Len(col_names)
    THEN [panic |-> FALSE, value |-> <<col_names[x_pos + 1]>> \o IntToStr(8 - y_pos)]
    ELSE [panic |-> TRUE, value |-> <<>>]

----------------------------------------------------------------------------
(* Game *)

\* the inner loop of parse_fen: one row substring scanned into `row`;
\* to_digit(..).expect(..) panics on a numeric character that is no digit
RECURSIVE parse_fen_chars(_, _)
parse_fen_chars(single_row, row) ==
    IF single_row = <<>> THEN [panic |-> FALSE, row |-> row]
    ELSE LET character == Head(single_row)
         IN  IF is_numeric(character)
             THEN IF to_digit(character).some
                  THEN parse_fen_chars(Tail(single_row),
                           row \o [i \in 1..to_digit(character).digit |-> "*"])
                  ELSE [panic |-> TRUE, row |-> row]
             ELSE parse_fen_chars(Tail(single_row), row \o <<character>>)

\* a slip: `row` not emptied after it is pushed
RECURSIVE parse_fen_rows_keeps_row(_, _, _)
parse_fen_rows_keeps_row(board_state_vec, row, board_state) ==
    IF board_state_vec = <<>> THEN [panic |-> FALSE, board_state |-> board_state]
    ELSE LET filled == parse_fen_chars(Head(board_state_vec), row)
         IN  IF filled.panic
             THEN [panic |-> TRUE, board_state |-> board_state]
             ELSE parse_fen_rows_keeps_row(Tail(board_state_vec), filled.row,
                                           Append(board_state, filled.row))

\* the outer loop of parse_fen: `row` is declared outside the loop, pushed
\* as a clone and then emptied by retain
RECURSIVE parse_fen_rows(_, _, _)
parse_fen_rows(board_state_vec, row, board_state) ==
    IF board_state_vec = <<>> THEN [panic |-> FALSE, board_state |-> board_state]
    ELSE LET filled == parse_fen_chars(Head(board_state_vec), row)
         IN  IF filled.panic
             THEN [panic |-> TRUE, board_state |-> board_state]
             ELSE parse_fen_rows(Tail(board_state_vec), <<>>,
                                 Append(board_state, filled.row))

\* Game::parse_fen; it panics in the loops (line 53) or, after them, when
\* fen_vec[1] or its first char is missing (line 66), and then returns nothing
parse_fen(fen) ==
    LET fen_vec == split(fen, " ")
        board_state_vec == split(fen_vec[1], "/")
        rows == parse_fen_rows(board_state_vec, <<>>, <<>>)
    IN  IF rows.panic \/ Len(fen_vec) < 2 \/ fen_vec[2] = <<>>
        THEN [panic |-> TRUE, game |-> [fen |-> <<>>, turn |-> "", board |-> <<>>]]
        ELSE [panic |-> FALSE,
              game |-> [fen |-> fen, turn |-> fen_vec[2][1],
                        board |-> rows.board_state]]

\* the inner loop of update_fen
RECURSIVE update_fen_chars(_, _)
update_fen_chars(single_row, row) ==
    IF single_row = <<>> THEN [panic |-> FALSE, row |-> row]
    ELSE LET character == Head(single_row)
         IN  IF is_numeric(character)
             THEN IF to_digit(character).some
                  THEN update_fen_chars(Tail(single_row),
                           row \o [i \in 1..to_digit(character).digit |-> "*"])
                  ELSE [panic |-> TRUE, row |-> row]
             ELSE update_fen_chars(Tail(single_row), row \o <<character>>)

\* a slip: `row` not emptied after it is pushed
RECURSIVE update_fen_rows_keeps_row(_, _, _)
update_fen_rows_keeps_row(board_state_vec, row, board_state) ==
    IF board_state_vec = <<>> THEN [panic |-> FALSE, board_state |-> board_state]
    ELSE LET filled == update_fen_chars(Head(board_state_vec), row)
         IN  IF filled.panic
             THEN [panic |-> TRUE, board_state |-> board_state]
             ELSE update_fen_rows_keeps_row(Tail(board_state_vec), filled.row,
                                            Append(board_state, filled.row))

\* the outer loop of update_fen
RECURSIVE update_fen_rows(_, _, _)
update_fen_rows(board_state_vec, row, board_state) ==
    IF board_state_vec = <<>> THEN [panic |-> FALSE, board_state |-> board_state]
    ELSE LET filled == update_fen_chars(Head(board_state_vec), row)
         IN  IF filled.panic
             THEN [panic |-> TRUE, board_state |-> board_state]
             ELSE update_fen_rows(Tail(board_state_vec), <<>>,
                                  Append(board_state, filled.row))

\* the side-to-move read by update_fen: fen_vec[1].chars()[0]
update_fen_turn(fen_vec) == fen_vec[2][1]

\* Game::update_fen on self.  A panic in the loops (line 85) comes before any
\* assignment; self.fen is assigned (line 96) before the read of fen_vec[1]
\* (line 97) can panic, self.turn and self.board after it
update_fen(self, fen) ==
    LET fen_vec == split(fen, " ")
        board_state_vec == split(fen_vec[1], "/")
        rows == update_fen_rows(board_state_vec, <<>>, <<>>)
    IN  IF rows.panic
        THEN [panic |-> TRUE, game |-> self]
        ELSE IF Len(fen_vec) < 2 \/ fen_vec[2] = <<>>
        THEN [panic |-> TRUE, game |-> [self EXCEPT !.fen = fen]]
        ELSE [panic |-> FALSE,
              game |-> [fen |-> fen, turn |-> update_fen_turn(fen_vec),
                        board |-> rows.board_state]]

\* Game::new
Game_new == parse_fen(InitialFen).game

----------------------------------------------------------------------------
(* The resolver chess::game_turn, an external crate.  Its interface is a    *)
(* position text and a request in, a text out: a successful call yields a   *)
(* new well-formed position text.  What a call yields when the resolver     *)
(* finds the move invalid is the resolver's own contract; the handler has   *)
(* no branch for it, and it is not modelled.                                *)

AfterE4 == <<"r", "n", "b", "q", "k", "b", "n", "r", "/", "p", "p", "p", "p", "p", "p", "p", "p", "/", "8", "/", "8", "/", "4", "P", "3", "/", "8", "/", "P", "P", "P", "P", "1", "P", "P", "P", "/", "R", "N", "B", "Q", "K", "B", "N", "R", " ", "b", " ", "K", "Q", "k", "q", " ", "e", "3", " ", "0", " ", "1">>

AfterE4E5 == <<"r", "n", "b", "q", "k", "b", "n", "r", "/", "p", "p", "p", "p", "1", "p", "p", "p", "/", "8", "/", "4", "p", "3", "/", "4", "P", "3", "/", "8", "/", "P", "P", "P", "P", "1", "P", "P", "P", "/", "R", "N", "B", "Q", "K", "B", "N", "R", " ", "w", " ", "K", "Q", "k", "q", " ", "e", "6", " ", "0", " ", "2">>

ResolvedPositions == {AfterE4, AfterE4E5}

game_turn(fen, request) == ResolvedPositions

----------------------------------------------------------------------------
(* AppState::mouse_button_up_event *)

Buttons == {"Left", "Right", "Middle"}

\* where a release of another button than the left one is sampled: on a board
\* square and on the restart control, the two places a left release acts on
OtherButtonCells == {<<4, 6>>, <<10, 2>>}

\* sampled pointer positions, in pixels
PixelAt(cell) == cell * GRID_CELL_SIZE[1] + PixelOffset
PointerXs == {PixelAt(c) : c \in (0 - Margin)..(SCREEN_COLS - 1 + Margin)}
PointerYs == {PixelAt(r) : r \in (0 - Margin)..(SCREEN_ROWS - 1 + Margin)}

\* (pos / GRID_CELL_SIZE.0 as f32).floor() as i32, for x and for y alike
board_pos(p) == p \div GRID_CELL_SIZE[1]

\* board_pos_x <= 7: "the click was within board boundaries"
within_board(board_pos_x, board_pos_y) == board_pos_x <= 7

\* a slip: only the left half of the restart control
on_restart_one_column(board_pos_x, board_pos_y) ==
    board_pos_x = 10 /\ board_pos_y = 2

\* the restart control
on_restart(board_pos_x, board_pos_y) ==
    (board_pos_x = 10 \/ board_pos_x = 11) /\ board_pos_y = 2

\* a slip: the coordinates stored row first
pick_up_transposed(board_pos_x, board_pos_y) == <<board_pos_y, board_pos_x>>

\* vec![board_pos_x, board_pos_y]
pick_up(board_pos_x, board_pos_y) == <<board_pos_x, board_pos_y>>

\* a slip: the two labels in the wrong order
format_action_swapped(source, target) == target \o <<" ">> \o source

\* format!("{} {}", source, target)
format_action(source, target) == source \o <<" ">> \o target

\* piece_picked_up.retain(|_| false)
retain_none(v) == <<>>

\* The handler up to its call of game_turn; the call itself returns in
\* game_turn_returns.
mouse_button_up_event(button, pos_x, pos_y) ==
    LET board_pos_x == board_pos(pos_x)
        board_pos_y == board_pos(pos_y)
        here == get_algebraic_notation(board_pos_x, board_pos_y)
        cell == <<board_pos_x, board_pos_y>>
    IN  /\ pc = "idle"
        /\ click' = <<button, pos_x, pos_y>>
        /\ reply' = <<>>
        /\ UNCHANGED <<arg, result>>
        /\ IF button # "Left"
           THEN /\ last' = "other_button"
                /\ action' = <<>>
                /\ labelled' = <<>>
                /\ UNCHANGED <<game, piece_picked_up, pc>>
           ELSE IF within_board(board_pos_x, board_pos_y)
           THEN IF here.panic
                THEN \* the println! argument panics before anything is done
                     /\ last' = "panic"
                     /\ pc' = "panicked"
                     /\ action' = <<>>
                     /\ labelled' = <<cell>>
                     /\ UNCHANGED <<game, piece_picked_up>>
                ELSE IF piece_picked_up = <<>>
                THEN /\ last' = "picked_up"
                     /\ piece_picked_up' = pick_up(board_pos_x, board_pos_y)
                     /\ action' = <<>>
                     /\ labelled' = <<cell>>
                     /\ UNCHANGED <<game, pc>>
                ELSE LET algebraic_coordinate_source ==
                             get_algebraic_notation(piece_picked_up[1], piece_picked_up[2])
                         algebraic_coordinate_target ==
                             get_algebraic_notation(board_pos_x, board_pos_y)
                     IN  /\ last' = "request"
                         /\ action' = format_action(algebraic_coordinate_source.value,
                                                    algebraic_coordinate_target.value)
                         /\ labelled' = <<cell, piece_picked_up, cell>>
                         /\ pc' = "resolving"
                         /\ UNCHANGED <<game, piece_picked_up>>
           ELSE IF on_restart(board_pos_x, board_pos_y)
           THEN /\ last' = "restart"
                /\ game' = Game_new
                /\ action' = <<>>
                /\ labelled' = <<>>
                /\ UNCHANGED <<piece_picked_up, pc>>
           ELSE /\ last' = "elsewhere"
                /\ action' = <<>>
                /\ labelled' = <<>>
                /\ UNCHANGED <<game, piece_picked_up, pc>>

\* game_turn returns: update_fen on its reply, then piece_picked_up is emptied
game_turn_returns ==
    /\ pc = "resolving"
    /\ \E fen \in game_turn(game.fen, action) :
          LET updated == update_fen(game, fen)
          IN  /\ reply' = fen
              /\ game' = updated.game
              /\ IF updated.panic
                 THEN /\ pc' = "panicked"
                      /\ last' = "panic"
                      /\ UNCHANGED piece_picked_up
                 ELSE /\ pc' = "idle"
                      /\ last' = "resolved"
                      /\ piece_picked_up' = retain_none(piece_picked_up)
    /\ action' = <<>>
    /\ UNCHANGED <<click, labelled, arg, result>>

\* AppState::load_sprites: the characters that have an image
sprites == {"k", "q", "r", "p", "b", "n", "K", "Q", "R", "P", "B", "N"}

\* self.game.board[row][col] of draw's loops is inside the vectors
board_has(g, row, col) == row < Len(g.board) /\ col < Len(g.board[row + 1])

\* AppState::draw panics: on a side that is neither 'w' nor 'b' (line 254), on
\* a board shorter than 8x8 (line 319), on a piece without a sprite (lines 326,
\* 338) and on the picked-up cell when its character has no sprite, which
\* '*' does not (line 361).  Failures of the graphics calls are left out.
draw_panics(g, picked) ==
    \/ g.turn \notin {"w", "b"}
    \/ \E row \in 0..7, col \in 0..7 : ~board_has(g, row, col)
    \/ \E row \in 0..7, col \in 0..7 :
           /\ board_has(g, row, col)
           /\ g.board[row + 1][col + 1] # "*"
           /\ (picked = <<>> \/ col # picked[1] \/ row # picked[2])
           /\ g.board[row + 1][col + 1] \notin sprites
    \/ /\ picked # <<>>
       /\ \E row \in 0..7, col \in 0..7 :
              /\ col = picked[1] /\ row = picked[2]
              /\ board_has(g, row, col)
              /\ g.board[row + 1][col + 1] \notin sprites

\* one frame: update (empty) and draw, which changes no field of AppState
draw ==
    /\ pc = "idle"
    /\ IF draw_panics(game, piece_picked_up)
       THEN /\ pc' = "panicked"
            /\ last' = "draw_panic"
            /\ UNCHANGED <<game, piece_picked_up, action, reply, click, labelled,
                           arg, result>>
       ELSE UNCHANGED vars

\* AppState::new
Init ==
    /\ game = Game_new
    /\ piece_picked_up = <<>>
    /\ pc = "idle"
    /\ action = <<>>
    /\ reply = <<>>
    /\ click = <<>>
    /\ labelled = <<>>
    /\ last = "new"
    /\ arg = <<>>
    /\ result = <<>>

Next ==
    \/ \E pos_x \in PointerXs, pos_y \in PointerYs :
           mouse_button_up_event("Left", pos_x, pos_y)
    \/ \E button \in Buttons \ {"Left"}, where \in OtherButtonCells :
           mouse_button_up_event(button, PixelAt(where[1]), PixelAt(where[2]))
    \/ game_turn_returns
    \/ draw

Spec == Init /\ [][Next]_vars


----------------------------------------------------------------------------
(* The decoder and update_fen applied to texts of every shape: well formed, *)
(* rows too long, too short or empty, side field missing or empty.          *)

RowSamples == {<<"²">>, <<"4", "½", "3">>, <<"8">>, <<"9">>, <<"4", "P", "3">>, <<"r", "n", "b", "q", "k", "b", "n", "r">>, <<"3", "p", "5">>, <<"4", "4", "p">>, <<>>}
RowTail == <<"/", "8", "/", "8", "/", "8", "/", "8", "/", "P", "P", "P", "P", "P", "P", "P", "P", "/", "R", "N", "B", "Q", "K", "B", "N", "R">>
TextTails == {<<" ", "w">>, <<" ", "b", " ", "K", "Q", "k", "q", " ", "-", " ", "0", " ", "1">>, <<" ">>, <<>>, <<" ", " ", "w">>}
Texts ==
    {r1 \o <<"/">> \o r2 \o RowTail \o tail :
         r1 \in RowSamples, r2 \in RowSamples, tail \in TextTails}
    \cup {InitialFen, AfterE4, AfterE4E5, <<"8", "/", "8", "/", "8", "/", "8", "/", "8", "/", "8", "/", "8", " ", "w">>, <<>>}

InitCodec ==
    /\ game = Game_new
    /\ piece_picked_up = <<>>
    /\ pc = "input"
    /\ action = <<>>
    /\ reply = <<>>
    /\ click = <<>>
    /\ labelled = <<>>
    /\ last = "new"
    /\ arg \in Texts
    /\ result = <<>>

\* Game::parse_fen(arg)
ApplyParseFen ==
    /\ pc = "input"
    /\ result' = parse_fen(arg)
    /\ pc' = IF result'.panic THEN "panicked" ELSE "done"
    /\ last' = "parse_fen"
    /\ UNCHANGED <<game, piece_picked_up, action, reply, click, labelled, arg>>

\* self.game.update_fen(arg)
ApplyUpdateFen ==
    /\ pc = "input"
    /\ LET updated == update_fen(game, arg)
       IN  /\ game' = updated.game
           /\ pc' = IF updated.panic THEN "panicked" ELSE "done"
    /\ last' = "update_fen"
    /\ UNCHANGED <<piece_picked_up, action, reply, click, labelled, arg, result>>

NextCodec == ApplyParseFen \/ ApplyUpdateFen

SpecCodec == InitCodec /\ [][NextCodec]_vars

----------------------------------------------------------------------------
(* get_algebraic_notation applied to every cell a pointer can map to *)

InitLabel ==
    /\ game = Game_new
    /\ piece_picked_up = <<>>
    /\ pc = "input"
    /\ action = <<>>
    /\ reply = <<>>
    /\ click = <<>>
    /\ labelled = <<>>
    /\ last = "new"
    /\ arg \in ((0 - Margin)..(SCREEN_COLS - 1 + Margin))
                 \X ((0 - Margin)..(SCREEN_ROWS - 1 + Margin))
    /\ result = <<>>

ApplyLabel ==
    /\ pc = "input"
    /\ result' = get_algebraic_notation(arg[1], arg[2])
    /\ pc' = IF result'.panic THEN "panicked" ELSE "done"
    /\ last' = "label"
    /\ UNCHANGED <<game, piece_picked_up, action, reply, click, labelled, arg>>

NextLabel == ApplyLabel

SpecLabel == InitLabel /\ [][NextLabel]_vars

----------------------------------------------------------------------------
(* What the claims speak of, stated without the operators above *)

\* the cell a pixel coordinate lies in
\* (cells are 90 pixels wide; p % 90 is the offset inside the cell, never negative)
CellOfPixel(p) == (p - (p % 90)) \div 90

ClickCellOf(c) == <<CellOfPixel(c[2]), CellOfPixel(c[3])>>

\* the 8x8 playable area
InGrid(cell) == cell[1] \in 0..7 /\ cell[2] \in 0..7

Squares == (0..7) \X (0..7)

FileLetters == <<"a", "b", "c", "d", "e", "f", "g", "h">>
RankDigits == <<"8", "7", "6", "5", "4", "3", "2", "1">>

\* the label of a square of the playable area: file letter, then rank 8 - row
SquareLabel(cell) == <<FileLetters[cell[1] + 1], RankDigits[cell[2] + 1]>>

SquareLabels == {<<f, r>> : f \in {"a", "b", "c", "d", "e", "f", "g", "h"},
                            r \in {"1", "2", "3", "4", "5", "6", "7", "8"}}

\* toLabel of a selection: the table inside the playable area, the labeller's
\* own answer for a selection outside it
LabelOf(cell) ==
    IF InGrid(cell) THEN SquareLabel(cell)
    ELSE get_algebraic_notation(cell[1], cell[2]).value

\* columns a character of a row substring stands for
CharWidth(c) ==
    CASE c = "0" -> 0 [] c = "1" -> 1 [] c = "2" -> 2 [] c = "3" -> 3 [] c = "4" -> 4
      [] c = "5" -> 5 [] c = "6" -> 6 [] c = "7" -> 7 [] c = "8" -> 8 [] c = "9" -> 9
      [] OTHER -> 1

IsDigit(c) == c \in {"0", "1", "2", "3", "4", "5", "6", "7", "8", "9"}

RECURSIVE RowWidth(_)
RowWidth(row_text) ==
    IF row_text = <<>> THEN 0
    ELSE CharWidth(Head(row_text)) + RowWidth(Tail(row_text))

\* cells is row_text with every digit d replaced by d empty cells
RowDecodes(row_text, cells) ==
    /\ Len(cells) = RowWidth(row_text)
    /\ \A i \in 1..Len(row_text) :
          LET before == RowWidth(SubSeq(row_text, 1, i - 1))
          IN  IF IsDigit(row_text[i])
              THEN \A k \in (before + 1)..(before + CharWidth(row_text[i])) :
                       cells[k] = "*"
              ELSE cells[before + 1] = row_text[i]

\* index of the first space of a text, 0 when it has none
FirstSpace(text) ==
    IF \A i \in 1..Len(text) : text[i] # " " THEN 0
    ELSE CHOOSE i \in 1..Len(text) :
             text[i] = " " /\ \A j \in 1..(i - 1) : text[j] # " "

\* field 1
BoardField(text) ==
    IF FirstSpace(text) = 0 THEN text ELSE SubSeq(text, 1, FirstSpace(text) - 1)

\* field 2 exists and is not empty
HasSide(text) ==
    /\ FirstSpace(text) > 0
    /\ FirstSpace(text) < Len(text)
    /\ text[FirstSpace(text) + 1] # " "

SideOf(text) == text[FirstSpace(text) + 1]

Slashes(text, upto) == Cardinality({j \in 1..upto : text[j] = "/"})

RowCount(text) == Slashes(BoardField(text), Len(BoardField(text))) + 1

\* index of the k-th '/' of b; 0 before the first, Len(b) + 1 after the last
SlashAt(b, k) ==
    IF k = 0 THEN 0
    ELSE IF k > Slashes(b, Len(b)) THEN Len(b) + 1
    ELSE CHOOSE i \in 1..Len(b) : b[i] = "/" /\ Slashes(b, i) = k

\* the r-th '/'-separated row of field 1, top row first
RowText(text, r) ==
    LET b == BoardField(text)
    IN  SubSeq(b, SlashAt(b, r - 1) + 1, SlashAt(b, r) - 1)

\* board is the decoding of field 1 of text
BoardDecodes(text, board) ==
    /\ Len(board) = RowCount(text)
    /\ \A r \in 1..Len(board) : RowDecodes(RowText(text, r), board[r])

\* field 1 holds no numeric character that is not an ASCII digit
PlainBoard(text) ==
    \A i \in 1..Len(BoardField(text)) : BoardField(text)[i] \notin {"²", "½"}

\* two fields or more, eight rows, each eight columns wide
WellFormed(text) ==
    /\ HasSide(text)
    /\ RowCount(text) = 8
    /\ \A r \in 1..8 : RowWidth(RowText(text, r)) = 8

EmptyRow == <<"*", "*", "*", "*", "*", "*", "*", "*">>

StandardLayout ==
    << <<"r", "n", "b", "q", "k", "b", "n", "r">>,
       <<"p", "p", "p", "p", "p", "p", "p", "p">>,
       EmptyRow, EmptyRow, EmptyRow, EmptyRow,
       <<"P", "P", "P", "P", "P", "P", "P", "P">>,
       <<"R", "N", "B", "Q", "K", "B", "N", "R">> >>

StandardGame == [fen |-> InitialFen, turn |-> "w", board |-> StandardLayout]

\* the step is a run of mouse_button_up_event (not a frame)
PointerRelease == pc = "idle" /\ click' # <<>> /\ last' # "draw_panic"

----------------------------------------------------------------------------
(* Claims *)

\* C1: in state Armed(C), a left release on a grid cell D emits the one request
\* toLabel(C) " " toLabel(D) and hands it to the resolver, D = C included; when
\* the resolver returns, whatever position it returns, Selection is None.
C1_SecondClickEmitsRequest ==
    [][ /\ (PointerRelease /\ piece_picked_up # <<>> /\ click'[1] = "Left"
              /\ InGrid(ClickCellOf(click')))
           => /\ pc' = "resolving"
              /\ action' = LabelOf(piece_picked_up) \o <<" ">>
                               \o SquareLabel(ClickCellOf(click'))
              /\ game' = game
        /\ pc = "resolving"
           => /\ pc' = "idle"
              /\ piece_picked_up' = <<>>
              /\ action' = <<>>
      ]_vars

\* C1 witness: armed on e2, clicked e2 again, the resolver has returned
C1_Witness ==
    /\ last = "resolved"
    /\ labelled = << <<4, 6>>, <<4, 6>>, <<4, 6>> >>
    /\ piece_picked_up = <<>>

\* C2: in state Idle a left release on a grid cell C, empty or not, arms the
\* controller on exactly C, emits no request, calls no resolver and leaves the
\* game state as it was.
C2_FirstClickArms ==
    [][ (PointerRelease /\ piece_picked_up = <<>> /\ click'[1] = "Left"
           /\ InGrid(ClickCellOf(click')))
        => /\ piece_picked_up' = ClickCellOf(click')
           /\ action' = <<>>
           /\ pc' = "idle"
           /\ game' = game
      ]_vars

\* C2 witness: armed on the empty square (2,3)
C2_Witness ==
    /\ last = "picked_up"
    /\ piece_picked_up = <<2, 3>>
    /\ game.board[4][3] = "*"
    /\ pc = "idle"
    /\ action = <<>>

\* C3: a release on a cell outside the 8x8 area never reaches the selection
\* state machine: Selection is unchanged, no request is emitted (the handler
\* returns without calling the resolver) and the labeller is not applied to
\* the cell.
C3_OutsideClicksIgnored ==
    [][ (PointerRelease /\ ~InGrid(ClickCellOf(click')))
        => /\ piece_picked_up' = piece_picked_up
           /\ action' = <<>>
           /\ pc' = "idle"
           /\ \A i \in 1..Len(labelled') : InGrid(labelled'[i])
      ]_vars

\* C4: in every reachable state the grid is the decoding of the position text
\* and the side to move is the side field of that same text.
C4_GridIsDecodingOfText ==
    /\ HasSide(game.fen)
    /\ game.turn = SideOf(game.fen)
    /\ BoardDecodes(game.fen, game.board)

\* C4 witness: the resolver's position after e2-e4 has been applied
C4_Witness ==
    /\ last = "resolved"
    /\ game.fen = AfterE4
    /\ game.turn = "b"
    /\ game.board[5][5] = "P"

\* C5: update_fen on a malformed text (no second field, or a row not eight
\* columns wide) leaves positionText, sideToMove and grid at their prior values.
C5_MalformedTextKeepsState ==
    (last = "update_fen" /\ ~WellFormed(arg)) => game = StandardGame

\* C6: on the second click Selection is cleared before the resolver's outcome
\* is known: while the resolver runs (from its invocation until its returned
\* position is applied) Selection is already None.
C6_ClearedBeforeResolve ==
    pc = "resolving" => piece_picked_up = <<>>

\* C8: on every square of the playable area get_algebraic_notation returns
\* the file letter of the column followed by the rank 8 - row, and no two
\* squares share a label: the 64 squares map onto the 64 labels.
C8_LabelBijection ==
    (last = "label" /\ InGrid(arg))
    => /\ ~result.panic
       /\ result.value = SquareLabel(arg)
       /\ (arg = <<0, 0>> => result.value = <<"a", "8">>)
       /\ (arg = <<7, 7>> => result.value = <<"h", "1">>)
       /\ (arg = <<4, 1>> => result.value = <<"e", "7">>)
       /\ \A other \in Squares \ {arg} :
              get_algebraic_notation(other[1], other[2]).value # result.value
       /\ {get_algebraic_notation(sq[1], sq[2]).value : sq \in Squares} = SquareLabels

\* C8 witness: (4,1) labelled e7
C8_Witness ==
    /\ last = "label"
    /\ arg = <<4, 1>>
    /\ result.value = <<"e", "7">>

\* C9, as claimed: parse_fen keeps the text, takes the first character of
\* field 2 as the side to move and decodes field 1 row by row, each digit d into
\* d empty cells and every other character unchanged; a well-formed text gives
\* eight rows of eight cells and the initial position the standard layout,
\* white to move.
C9_DecodeExpandsRows ==
    last = "parse_fen"
    => /\ HasSide(arg)
          => /\ ~result.panic
             /\ result.game.fen = arg
             /\ result.game.turn = SideOf(arg)
             /\ BoardDecodes(arg, result.game.board)
       /\ WellFormed(arg)
          => /\ Len(result.game.board) = 8
             /\ \A r \in 1..8 : Len(result.game.board[r]) = 8
       /\ arg = InitialFen => result.game = StandardGame

\* C9, amended: as claimed for a text whose field 1 holds no numeric character
\* other than the ASCII digits; on a text that holds one the decoder panics.
C9_DecodeExpandsAsciiDigits ==
    last = "parse_fen"
    => /\ (HasSide(arg) /\ PlainBoard(arg))
          => /\ ~result.panic
             /\ result.game.fen = arg
             /\ result.game.turn = SideOf(arg)
             /\ BoardDecodes(arg, result.game.board)
       /\ ~PlainBoard(arg) => result.panic
       /\ (WellFormed(arg) /\ PlainBoard(arg))
          => /\ Len(result.game.board) = 8
             /\ \A r \in 1..8 : Len(result.game.board[r]) = 8
       /\ arg = InitialFen => result.game = StandardGame

\* C9 witness: the initial position decoded
C9_Witness ==
    /\ last = "parse_fen"
    /\ arg = InitialFen
    /\ result.game.board[1] = <<"r", "n", "b", "q", "k", "b", "n", "r">>
    /\ result.game.board[7] = <<"P", "P", "P", "P", "P", "P", "P", "P">>
    /\ result.game.turn = "w"

\* C10: a left release on the restart control (column 10 or 11, row 2) replaces
\* the game by the decoding of the initial position and leaves Selection as it
\* was; after a restart while Armed(C) the next grid click emits a request whose
\* source is toLabel(C).
C10_RestartKeepsSelection ==
    [][ /\ (PointerRelease /\ click'[1] = "Left"
              /\ ClickCellOf(click') \in {<<10, 2>>, <<11, 2>>})
           => /\ game' = StandardGame
              /\ piece_picked_up' = piece_picked_up
              /\ pc' = "idle"
              /\ action' = <<>>
        /\ (PointerRelease /\ last = "restart" /\ piece_picked_up # <<>>
              /\ click'[1] = "Left" /\ InGrid(ClickCellOf(click')))
           => /\ pc' = "resolving"
              /\ SubSeq(action', 1, Len(LabelOf(piece_picked_up)) + 1)
                     = LabelOf(piece_picked_up) \o <<" ">>
      ]_vars

\* C10 witness: restarted from the right half of the control while armed on e2
C10_Witness ==
    /\ last = "restart"
    /\ ClickCellOf(click) = <<11, 2>>
    /\ piece_picked_up = <<4, 6>>
    /\ game = StandardGame

====
